---- MODULE Spec2Model ----
(***************************************************************************)
(* The content validation pipeline of doc_tools: the two implementations   *)
(* of a validation run,                                                    *)
(*   ContentValidator.validate_content   (core/content_validator.py)       *)
(*   ContentValidationWorkflow.validate_file                               *)
(*                                       (workflows/content_validation.py) *)
(* with their splitters, the per-chunk retrieval and analysis, the         *)
(* aggregation and the save of the result.                                 *)
(*                                                                         *)
(* A text is a sequence of characters.  The characters are one-character   *)
(* strings, except the two section tags, which are kept as one symbol      *)
(* each: "<section>" is a text the pattern <section[^>]*> matches and that *)
(* contains "<section"; "</section>" is the closing tag.                   *)
(***************************************************************************)
EXTENDS Integers, Sequences, FiniteSets, TLC

\* ------------------------------------------------------------------ bounds

\* Longest document of the splitter specification.
MaxDocLen == 4

\* Longest document of a validation run.
MaxRunDocLen == 3

\* Most results one retrieval response holds.
MaxResults == 1

\* Most text spans one retrieval result holds.
MaxSpans == 1

\* Most runs on one object in the specification of repeated runs.
MaxRuns == 2

\* The most text spans of the one retrieval result of the runs that look at
\* the prompt.
MaxPromptSpans == 6

\* By how many characters the longest document of those runs exceeds the
\* limit of the query.
MaxOver == 1

\* ------------------------------------------------------------- characters

NL == "\n"

SP == " "

OpenTag == "<section>"

CloseTag == "</section>"

\* What Python's \s and str.strip() treat as whitespace, among the characters used.
Whitespace == {SP, NL}

\* The class [.!?] of the sentence pattern.
SentenceEnd == {".", "!", "?"}

\* The characters of the documents the splitter specification draws.
Alphabet == {"a", SP, NL, "#", ".", OpenTag, CloseTag}

\* The characters of the documents a validation run draws.
RunAlphabet == {"a", "b", NL, OpenTag}

\* All texts over the characters A of length at most n.
TextsOver(A, n) == UNION {[1..k -> A] : k \in 0..n}

\* ------------------------------------------------------- Python str helpers

\* bool(s.strip()): the text holds a character that is not whitespace.
StripTruthy(s) == \E k \in 1..Len(s) : s[k] \notin Whitespace

\* s.strip(): the text without its leading and trailing whitespace.
Strip(s) ==
    IF ~StripTruthy(s) THEN <<>>
    ELSE LET nonws == {k \in 1..Len(s) : s[k] \notin Whitespace}
             lo == CHOOSE k \in nonws : \A j \in nonws : k <= j
             hi == CHOOSE k \in nonws : \A j \in nonws : k >= j
         IN SubSeq(s, lo, hi)

\* s[:n]
Prefix(s, n) == SubSeq(s, 1, IF Len(s) < n THEN Len(s) ELSE n)

\* sub in s, for a one-symbol sub.
Contains(s, c) == \E k \in 1..Len(s) : s[k] = c

\* The end of the longest run of characters of the set cs that starts at p
\* (p - 1 when s[p] is not in cs).
RECURSIVE RunEnd(_, _, _)
RunEnd(s, p, cs) ==
    IF p <= Len(s) /\ s[p] \in cs THEN RunEnd(s, p + 1, cs) ELSE p - 1

\* The sequence without the entries that are empty or whitespace-only:
\* [x for x in xs if x.strip()].
RECURSIVE FilterTruthy(_)
FilterTruthy(xs) ==
    IF xs = <<>> THEN <<>>
    ELSE (IF StripTruthy(Head(xs)) THEN <<Head(xs)>> ELSE <<>>) \o FilterTruthy(Tail(xs))

\* [x.strip() for x in xs if x.strip()]
RECURSIVE FilterStrip(_)
FilterStrip(xs) ==
    IF xs = <<>> THEN <<>>
    ELSE (IF StripTruthy(Head(xs)) THEN <<Strip(Head(xs))>> ELSE <<>>) \o FilterStrip(Tail(xs))

\* sep.join(xs) for the one-character separator sep.
RECURSIVE Join(_, _)
Join(sep, xs) ==
    IF xs = <<>> THEN <<>>
    ELSE IF Len(xs) = 1 THEN xs[1]
    ELSE xs[1] \o <<sep>> \o Join(sep, Tail(xs))

\* ------------------------------------------------------------ the patterns

\* The length of the match of a separator pattern that starts at position p
\* of s, 0 when none starts there.  The patterns:
\*   "nl"      the literal "\n"                    (str.split)
\*   "nlnl"    the literal "\n\n"                  (str.split)
\*   "blank"   \n\s*\n       greedy: up to the last newline of the whitespace run
\*   "sentence" (?<=[.!?])\s+  a whole whitespace run right after . ! or ?
\*   "heading" \n#{1,6}[ ]   a newline, one to six #, a space
\*   "opentag" <section[^>]*>
\*   "anytag"  <section[^>]*>|</section>
MatchLen(pattern, s, p) ==
    CASE pattern = "nl" -> IF s[p] = NL THEN 1 ELSE 0
      [] pattern = "nlnl" ->
            IF s[p] = NL /\ p + 1 <= Len(s) /\ s[p + 1] = NL THEN 2 ELSE 0
      [] pattern = "blank" ->
            IF s[p] # NL THEN 0
            ELSE LET e == RunEnd(s, p + 1, Whitespace)
                     nls == {q \in (p + 1)..e : s[q] = NL}
                 IN IF nls = {} THEN 0
                    ELSE (CHOOSE q \in nls : \A r \in nls : q >= r) - p + 1
      [] pattern = "sentence" ->
            IF p > 1 /\ s[p - 1] \in SentenceEnd /\ s[p] \in Whitespace
            THEN RunEnd(s, p, Whitespace) - p + 1 ELSE 0
      [] pattern = "heading" ->
            IF s[p] # NL THEN 0
            ELSE LET h == RunEnd(s, p + 1, {"#"}) - p
                 IN IF h >= 1 /\ h <= 6 /\ p + h + 1 <= Len(s) /\ s[p + h + 1] = SP
                    THEN h + 2 ELSE 0
      [] pattern = "opentag" -> IF s[p] = OpenTag THEN 1 ELSE 0
      [] pattern = "anytag" -> IF s[p] \in {OpenTag, CloseTag} THEN 1 ELSE 0

\* re.split(pattern, s) and s.split(sep): the pieces of s between the
\* leftmost non-overlapping matches, empty pieces included.  start is where
\* the current piece begins, p the position the scan has reached.
RECURSIVE SplitFrom(_, _, _, _)
SplitFrom(pattern, s, start, p) ==
    IF p > Len(s) THEN <<SubSeq(s, start, Len(s))>>
    ELSE LET m == MatchLen(pattern, s, p)
         IN IF m > 0
            THEN <<SubSeq(s, start, p - 1)>> \o SplitFrom(pattern, s, p + m, p + m)
            ELSE SplitFrom(pattern, s, start, p + 1)

ReSplit(pattern, s) == SplitFrom(pattern, s, 1, 1)

\* ------------------------------------------------------------- the splitters

ValidScopes == {"full", "section", "paragraph", "sentence"}

\* A scope no branch of the splitters names.
OtherScope == "chapter"

Scopes == ValidScopes \cup {OtherScope}

\* What a call gives back: the value it returns, or the exception it raises.
Return(v) == [raised |-> "none", value |-> v]

Raise(e) == [raised |-> e]

\* The loop of the Markdown branch of _split_content_by_scope: a line that
\* starts with # closes the section collected so far, when there is one, and
\* every line is added to the current section.
RECURSIVE MarkdownSections(_, _, _)
MarkdownSections(lines, current_section, sections) ==
    IF lines = <<>>
    THEN IF current_section # <<>>
         THEN Append(sections, Join(NL, current_section))
         ELSE sections
    ELSE LET line == Head(lines)
             heading == Len(line) >= 1 /\ line[1] = "#"
         IN IF heading /\ current_section # <<>>
            THEN MarkdownSections(Tail(lines), <<line>>,
                                  Append(sections, Join(NL, current_section)))
            ELSE MarkdownSections(Tail(lines), Append(current_section, line), sections)

\* ContentValidator._split_content_by_scope
SplitContentByScope(text, sc) ==
    CASE sc = "full" -> Return(<<text>>)
      [] sc = "section" ->
            IF Contains(text, OpenTag) \/ Contains(text, CloseTag)
            THEN Return(FilterTruthy(ReSplit("anytag", text)))
            ELSE Return(MarkdownSections(ReSplit("nl", text), <<>>, <<>>))
      [] sc = "paragraph" -> Return(FilterTruthy(ReSplit("nlnl", text)))
      [] sc = "sentence" -> Return(FilterTruthy(ReSplit("sentence", text)))
      [] OTHER -> Raise("InvalidScope")

\* _split_content with the final else branch returning the whole text, as
\* the branch for "full" does, in place of raising.
SplitContentElseFull(text, sc) ==
    CASE sc = "section" ->
            IF Contains(text, OpenTag)
            THEN Return(FilterStrip(ReSplit("opentag", text)))
            ELSE Return(FilterStrip(ReSplit("heading", text)))
      [] sc = "paragraph" -> Return(FilterStrip(ReSplit("blank", text)))
      [] sc = "sentence" -> Return(FilterStrip(ReSplit("sentence", text)))
      [] OTHER -> Return(<<text>>)

\* ContentValidationWorkflow._split_content
SplitContent(text, sc) ==
    CASE sc = "full" -> Return(<<text>>)
      [] sc = "section" ->
            IF Contains(text, OpenTag)
            THEN Return(FilterStrip(ReSplit("opentag", text)))
            ELSE Return(FilterStrip(ReSplit("heading", text)))
      [] sc = "paragraph" -> Return(FilterStrip(ReSplit("blank", text)))
      [] sc = "sentence" -> Return(FilterStrip(ReSplit("sentence", text)))
      [] OTHER -> Raise("InvalidScope")

\* The splitter of the class a run belongs to.
Splitter(cls, text, sc) ==
    IF cls = "validator" THEN SplitContentByScope(text, sc) ELSE SplitContent(text, sc)

\* ------------------------------------------------- the external services

\* None of Python, for the places that hold a dict.
None == [none |-> TRUE]

\* The local passages before it is bound: no list of passages.
Unbound == <<"<unbound>">>

\* What the retrieval service answers to one query: it fails (the client
\* raises), or it returns retrievalResults, each a list of text spans.
RetrievalAnswers ==
    {[ok |-> FALSE]} \cup
    {[ok |-> TRUE, retrievalResults |-> rs] :
        rs \in UNION {[1..k -> UNION {[1..m -> {"p"}] : m \in 0..MaxSpans}] :
                        k \in 0..MaxResults}}

\* passages: the span contents of all results, in order.
RECURSIVE ExtractPassages(_)
ExtractPassages(retrievalResults) ==
    IF retrievalResults = <<>> THEN <<>>
    ELSE Head(retrievalResults) \o ExtractPassages(Tail(retrievalResults))

\* The four fields of the schema the prompts ask for.
Fields == {"status", "message", "references", "suggestions"}

\* The statuses a model reply may carry: the two the prompts ask for and
\* a string outside every vocabulary.
ReplyStatuses == {"valid", "issues_found", "bogus"}

\* A JSON object with all four fields.
FullObjects ==
    [status : ReplyStatuses, message : {"m"}, references : {<<"r">>},
     suggestions : {<<"s">>}]

\* The fields a reply object may hold: all four; those of the prompt of
\* _validate_chunk, which asks for no references; the status alone; all but
\* the status; none.
ReplyShapes ==
    {Fields, {"status", "message", "suggestions"}, {"status"},
     {"message", "references", "suggestions"}, {}}

\* The JSON objects a reply may be.
ReplyObjects == {[f \in F |-> o[f]] : F \in ReplyShapes, o \in FullObjects}

\* What the generative model answers to one prompt: the call fails (the
\* client raises), the text is not JSON, the text is JSON but no object, or
\* the text is a JSON object.
ModelReplies ==
    {[kind |-> k] : k \in {"error", "notjson", "array", "string", "number", "null"}}
    \cup {[kind |-> "object", obj |-> o] : o \in ReplyObjects}

\* ------------------------------------------------------ per-chunk analysis

\* The length the query of a retrieval is cut to.
QueryLimit == 500

\* A query that is the chunk as it is.
WholeChunk(chunk) == chunk

\* The query made of a chunk: chunk[:500].
Query(chunk) == Prefix(chunk, QueryLimit)

\* sep.join(xs) for strings that are one piece each.
RECURSIVE JoinPieces(_, _)
JoinPieces(sep, xs) ==
    IF xs = <<>> THEN <<>>
    ELSE IF Len(xs) = 1 THEN <<xs[1]>>
    ELSE <<xs[1], sep>> \o JoinPieces(sep, Tail(xs))

\* A prompt is a sequence of pieces: the headings of its parts (the text of
\* the task or of the instructions as one piece), the chunk character by
\* character, each passage as one piece.

\* The prompt of _analyze_chunk_against_passages: the chunk and the context,
\* which is every passage, joined by blank lines.
AnalysisPrompt(chunk, passages) ==
    <<"CONTENT TO VALIDATE:">> \o chunk
    \o <<"KNOWLEDGE BASE CONTEXT:">> \o JoinPieces("\n\n", passages)
    \o <<"TASK:">>

\* The prompt of _validate_chunk: the chunk and the first three passages, a
\* fixed text in place of the first when there is none.
ValidationPrompt(chunk, passages) ==
    <<"CONTENT TO VALIDATE:">> \o chunk
    \o <<"RELEVANT INFORMATION FROM KNOWLEDGE BASE:",
         IF passages # <<>> THEN passages[1] ELSE "No relevant information found.",
         IF Len(passages) > 1 THEN passages[2] ELSE "",
         IF Len(passages) > 2 THEN passages[3] ELSE "",
         "INSTRUCTIONS:">>

\* The prompt the class cls sends for a chunk and its passages.
Prompt(cls, chunk, passages) ==
    IF cls = "validator" THEN AnalysisPrompt(chunk, passages)
    ELSE ValidationPrompt(chunk, passages)

\* The defaults for the fields a reply omits (content_validator.py).
FieldDefault(f) == IF f \in {"references", "suggestions"} THEN <<>> ELSE ""

\* ContentValidator._analyze_chunk_against_passages, from the model call on.
\* Only json.JSONDecodeError is caught: a reply that is JSON but no object
\* fails in the loop over required_fields (or at analysis["status"]) with a
\* TypeError.
AnalyzeChunkAgainstPassages(chunk, passages, reply) ==
    CASE reply.kind = "error" -> Raise("ModelInvocationFailure")
      [] reply.kind = "notjson" ->
            Return([status |-> "unknown", message |-> "Failed to analyze content",
                    references |-> <<>>,
                    suggestions |-> <<"Re-run validation with different scope">>])
      [] reply.kind = "object" ->
            Return([f \in Fields \cup DOMAIN reply.obj |->
                      IF f \in DOMAIN reply.obj THEN reply.obj[f] ELSE FieldDefault(f)])
      [] OTHER -> Raise("TypeError")

\* An iteration that counts the verdict "unknown" of a chunk without
\* passages among the issues.
ValidateContentIterationCountingUnknown(chunk, answer, reply) ==
    IF ~StripTruthy(chunk)
    THEN [raised |-> "none", appended |-> <<>>, validated |-> 0, issues |-> 0,
          retrievals |-> 0, invocations |-> 0]
    ELSE IF ~answer.ok
    THEN [raised |-> "RetrievalFailure", appended |-> <<>>, validated |-> 0,
          issues |-> 0, retrievals |-> 1, invocations |-> 0]
    ELSE IF ExtractPassages(answer.retrievalResults) = <<>>
    THEN [raised |-> "none",
          appended |-> <<[content |-> chunk, status |-> "unknown",
                          message |-> "No relevant information found in knowledge base",
                          references |-> <<>>]>>,
          validated |-> 0, issues |-> 1, retrievals |-> 1, invocations |-> 0]
    ELSE LET analysis == AnalyzeChunkAgainstPassages(
                             chunk, ExtractPassages(answer.retrievalResults), reply)
         IN IF analysis.raised # "none"
            THEN [raised |-> analysis.raised, appended |-> <<>>, validated |-> 0,
                  issues |-> 0, retrievals |-> 1, invocations |-> 1]
            ELSE [raised |-> "none",
                  appended |-> <<[content |-> chunk,
                                  status |-> analysis.value.status,
                                  message |-> analysis.value.message,
                                  references |-> analysis.value.references,
                                  suggestions |-> analysis.value.suggestions]>>,
                  validated |-> 1,
                  issues |-> IF analysis.value.status # "valid" THEN 1 ELSE 0,
                  retrievals |-> 1, invocations |-> 1]

\* One iteration of the loop of ContentValidator.validate_content on a chunk:
\* the exception it raises, the verdicts it appends, what it adds to the two
\* counters of the summary, and the calls it makes.
ValidateContentIteration(chunk, answer, reply) ==
    IF ~StripTruthy(chunk)
    THEN [raised |-> "none", appended |-> <<>>, validated |-> 0, issues |-> 0,
          retrievals |-> 0, invocations |-> 0]
    ELSE IF ~answer.ok
    THEN [raised |-> "RetrievalFailure", appended |-> <<>>, validated |-> 0,
          issues |-> 0, retrievals |-> 1, invocations |-> 0]
    ELSE IF ExtractPassages(answer.retrievalResults) = <<>>
    THEN [raised |-> "none",
          appended |-> <<[content |-> chunk, status |-> "unknown",
                          message |-> "No relevant information found in knowledge base",
                          references |-> <<>>]>>,
          validated |-> 0, issues |-> 0, retrievals |-> 1, invocations |-> 0]
    ELSE LET analysis == AnalyzeChunkAgainstPassages(
                             chunk, ExtractPassages(answer.retrievalResults), reply)
         IN IF analysis.raised # "none"
            THEN [raised |-> analysis.raised, appended |-> <<>>, validated |-> 0,
                  issues |-> 0, retrievals |-> 1, invocations |-> 1]
            ELSE [raised |-> "none",
                  appended |-> <<[content |-> chunk,
                                  status |-> analysis.value.status,
                                  message |-> analysis.value.message,
                                  references |-> analysis.value.references,
                                  suggestions |-> analysis.value.suggestions]>>,
                  validated |-> 1,
                  issues |-> IF analysis.value.status # "valid" THEN 1 ELSE 0,
                  retrievals |-> 1, invocations |-> 1]

\* ContentValidationWorkflow._validate_chunk: the model is invoked whatever
\* the passages are; the parsed reply itself becomes the result, and
\* result["content"] = chunk fails with a TypeError on a reply that is JSON
\* but no object.
ValidateChunk(chunk, answer, reply) ==
    IF ~answer.ok THEN Raise("RetrievalFailure")
    ELSE CASE reply.kind = "error" -> Raise("ModelInvocationFailure")
           [] reply.kind = "notjson" ->
                 Return([status |-> "error",
                         message |-> "Failed to parse validation result",
                         suggestions |-> <<>>, content |-> chunk])
           [] reply.kind = "object" ->
                 Return([f \in DOMAIN reply.obj \cup {"content"} |->
                           IF f = "content" THEN chunk ELSE reply.obj[f]])
           [] OTHER -> Raise("TypeError")

\* One iteration of the loop of ContentValidationWorkflow.validate_file:
\* result["status"] is read without a default (KeyError when the reply has
\* no status).
ValidateFileIteration(chunk, answer, reply) ==
    LET result == ValidateChunk(chunk, answer, reply)
    IN IF result.raised # "none"
       THEN [raised |-> result.raised, appended |-> <<>>, validated |-> 0,
             issues |-> 0, retrievals |-> 1,
             invocations |-> IF answer.ok THEN 1 ELSE 0]
       ELSE IF "status" \notin DOMAIN result.value
       THEN [raised |-> "KeyError", appended |-> <<result.value>>, validated |-> 0,
             issues |-> 0, retrievals |-> 1, invocations |-> 1]
       ELSE [raised |-> "none", appended |-> <<result.value>>, validated |-> 1,
             issues |-> IF result.value.status # "valid" THEN 1 ELSE 0,
             retrievals |-> 1, invocations |-> 1]

\* ---------------------------------------------------------------- the state

VARIABLES
    impl,                   \* the class of the object: "validator" (ContentValidator)
                            \* or "workflow" (ContentValidationWorkflow)
    kb_id,                  \* self.kb_id is set (truthy)
    runs,                   \* the calls made on the object so far
    pc,                     \* where the current run is: NotStarted, Chunking,
                            \* PerChunkAnalysis, Aggregating, Done, Failed
    content,                \* the document text of the run
    scope,                  \* the scope argument
    output_path,            \* an output path was given
    content_chunks,         \* what the splitter returned
    i,                      \* the index of the chunk the loop is at (from 1)
    passages,               \* the passages the latest iteration extracted, Unbound
                            \* when its retrieval was not made or raised
    response,               \* the reply the model gave in the latest iteration,
                            \* None when it was not invoked or the call raised
    cv_validation_results,  \* validate_content's local validation_results
    validated_chunks,       \* validate_file's local list of results
    issues_found,           \* validate_file's local counter
    validation_results,     \* the workflow's self.validation_results
    returned,               \* the value the run returned, None before
    error,                  \* the exception the run raised, "none" when none
    retrieval_calls,        \* calls of query_knowledge_base in the current run
    model_calls,            \* calls of invoke_model in the current run
    result_file,            \* the content of the result file, None when not written
    result_writes,          \* writes of the result file in the current run
    query,                  \* the query of the latest retrieval call of the run,
                            \* Unbound before
    prompt,                 \* the prompt of the latest model call of the run,
                            \* Unbound before
    heap,                   \* the result objects validate_file has built, in the
                            \* order of their creation: each as it is now
    report,                 \* the latest call of generate_validation_report: its
                            \* format, the results it read, the exception it
                            \* raised, the string it returned; None before
    report_file,            \* the content of the report file, Unbound when not
                            \* written
    exit_status,            \* the exit status of the command: <<>> while it has
                            \* not exited
    kb_operation,           \* the operation called on the KnowledgeBaseClient:
                            \* "none" before
    kb_step,                \* where the operation is: "idle", the call it makes
                            \* next, "returned" or "raised"
    data_source_id,         \* upload_document's data_source_id: "none", "given"
                            \* (the argument) or "created"
    service_calls,          \* the calls the operation made, but for the status
                            \* calls of its poller, in order
    attempts,               \* the iterations of the poller's loop so far
    status_calls,           \* the status calls the poller made
    status_reply,           \* what the latest status call gave: the status, or
                            \* that it raised or had no status; "none" before
    kb_returned,            \* what the operation returned: "none" or "response"
    kb_error                \* the exception the operation raised, "none" when none

vars == <<impl, kb_id, runs, pc, content, scope, output_path, content_chunks, i,
          passages, response, cv_validation_results, validated_chunks,
          issues_found, validation_results, returned, error, retrieval_calls,
          model_calls, result_file, result_writes, query, prompt, heap, report,
          report_file, exit_status, kb_operation, kb_step, data_source_id,
          service_calls, attempts, status_calls, status_reply, kb_returned,
          kb_error>>

\* The state of the KnowledgeBaseClient operation.
provisioning == <<kb_operation, kb_step, data_source_id, service_calls, attempts,
                  status_calls, status_reply, kb_returned, kb_error>>

\* What a run of the validation does not touch.
reporting == <<report, report_file, exit_status, provisioning>>

\* No operation was called on the KnowledgeBaseClient.
ProvisioningInit ==
    /\ kb_operation = "none"
    /\ kb_step = "idle"
    /\ data_source_id = "none"
    /\ service_calls = <<>>
    /\ attempts = 0
    /\ status_calls = 0
    /\ status_reply = "none"
    /\ kb_returned = "none"
    /\ kb_error = "none"

\* The documents a validation run draws.
RunDocs == TextsOver(RunAlphabet, MaxRunDocLen)

\* The documents the splitter specification draws.
Docs == TextsOver(Alphabet, MaxDocLen)

\* What a run starts from: the locals of the previous run are gone.
RunLocals(c, sc, out) ==
    /\ content' = c
    /\ scope' = sc
    /\ output_path' = out
    /\ content_chunks' = <<>>
    /\ i' = 1
    /\ passages' = Unbound
    /\ response' = None
    /\ query' = Unbound
    /\ prompt' = Unbound
    /\ cv_validation_results' = None
    /\ validated_chunks' = <<>>
    /\ issues_found' = 0
    /\ returned' = None
    /\ retrieval_calls' = 0
    /\ model_calls' = 0
    /\ result_writes' = 0

\* After construction: a ContentValidator (kb_id is optional) or a
\* ContentValidationWorkflow (kb_id is a required argument); nothing has run.
Init ==
    /\ impl \in {"validator", "workflow"}
    /\ kb_id \in (IF impl = "validator" THEN BOOLEAN ELSE {TRUE})
    /\ runs = 0
    /\ pc = "NotStarted"
    /\ content = <<>>
    /\ scope = "full"
    /\ output_path = FALSE
    /\ content_chunks = <<>>
    /\ i = 1
    /\ passages = Unbound
    /\ response = None
    /\ query = Unbound
    /\ prompt = Unbound
    /\ cv_validation_results = None
    /\ validated_chunks = <<>>
    /\ issues_found = 0
    /\ validation_results = None
    /\ returned = None
    /\ error = "none"
    /\ retrieval_calls = 0
    /\ model_calls = 0
    /\ result_file = None
    /\ result_writes = 0
    /\ heap = <<>>
    /\ report = None
    /\ report_file = Unbound
    /\ exit_status = <<>>
    /\ ProvisioningInit

\* The run ends with an exception.
Fails(e) ==
    /\ pc' = "Failed"
    /\ error' = e

\* The run goes on.
GoesOn(to) ==
    /\ pc' = to
    /\ error' = "none"

\* ContentValidator.validate_content is called, when the object runs nothing
\* (at one of the places from), with a document of docs and a scope of
\* scopes: the check of kb_id.
ValidateContentCall(from, docs, scopes) ==
    /\ impl = "validator"
    /\ pc \in from
    /\ runs < MaxRuns
    /\ runs' = runs + 1
    /\ \E c \in docs, sc \in scopes, out \in BOOLEAN : RunLocals(c, sc, out)
    /\ IF kb_id THEN GoesOn("Chunking") ELSE Fails("MissingKnowledgeBaseId")
    /\ UNCHANGED <<impl, kb_id, validation_results, result_file, heap>>
    /\ UNCHANGED reporting

\* A validate_file that starts by forgetting the stored results.
ResultsCleared(results) == None

\* What self.validation_results holds when validate_file has started: the
\* call does not assign it before its loop is over.
ResultsAtCall(results) == results

\* ContentValidationWorkflow.validate_file is called: the file is read.
ValidateFileCall(from, docs, scopes) ==
    /\ impl = "workflow"
    /\ pc \in from
    /\ runs < MaxRuns
    /\ runs' = runs + 1
    /\ \E c \in docs, sc \in scopes, out \in BOOLEAN, readable \in BOOLEAN :
          IF readable
          THEN RunLocals(c, sc, out) /\ GoesOn("Chunking")
          ELSE RunLocals(<<>>, sc, out) /\ Fails("UnreadableInput")
    /\ validation_results' = ResultsAtCall(validation_results)
    /\ UNCHANGED <<impl, kb_id, result_file, heap>>
    /\ UNCHANGED reporting

\* A loop that is left after its first iteration, and before it when
\* asked where to go at its start.
AfterFirstChunk(k, chunks) == "Aggregating"

\* After the last chunk the loop is left.
AfterChunk(k, chunks) == IF k > Len(chunks) THEN "Aggregating" ELSE "PerChunkAnalysis"

\* The splitter is applied; validate_content then builds its result with the
\* counters at 0, validate_file its empty list.
Split ==
    /\ pc = "Chunking"
    /\ LET split == Splitter(impl, content, scope)
       IN IF split.raised # "none"
          THEN /\ Fails(split.raised)
               /\ UNCHANGED <<content_chunks, cv_validation_results>>
          ELSE /\ content_chunks' = split.value
               /\ GoesOn(AfterChunk(1, split.value))
               /\ cv_validation_results' =
                     IF impl = "validator"
                     THEN [summary |-> [total_chunks |-> Len(split.value),
                                        validated_chunks |-> 0,
                                        issues_found |-> 0],
                           chunks |-> <<>>]
                     ELSE cv_validation_results
    /\ UNCHANGED <<impl, kb_id, runs, content, scope, output_path, i, passages,
                   response, query, prompt, validated_chunks, issues_found, validation_results,
                   returned, retrieval_calls, model_calls, result_file,
                   result_writes, heap>>
    /\ UNCHANGED reporting

\* The two locals of an iteration and the calls it made: passages is bound
\* when the retrieval returned, response when the model returned; the query
\* and the prompt are those of the calls it made.
IterationLocals(it, answer, reply) ==
    /\ passages' = IF it.retrievals = 1 /\ answer.ok
                   THEN ExtractPassages(answer.retrievalResults) ELSE Unbound
    /\ response' = IF it.invocations = 1 /\ reply.kind # "error" THEN reply ELSE None
    /\ query' = IF it.retrievals = 1 THEN Query(content_chunks[i]) ELSE query
    /\ prompt' = IF it.invocations = 1
                 THEN Prompt(impl, content_chunks[i],
                             ExtractPassages(answer.retrievalResults))
                 ELSE prompt
    /\ retrieval_calls' = retrieval_calls + it.retrievals
    /\ model_calls' = model_calls + it.invocations

\* One iteration of the loop of validate_content, the retrieval answering
\* with one of answers and the model replying with one of replies.
ValidateContentChunkOn(answers, replies) ==
    /\ impl = "validator"
    /\ pc = "PerChunkAnalysis"
    /\ \E answer \in answers, reply \in replies :
          LET it == ValidateContentIteration(content_chunks[i], answer, reply)
              summary == cv_validation_results.summary
          IN /\ IterationLocals(it, answer, reply)
             /\ IF it.raised # "none"
                THEN /\ Fails(it.raised)
                     /\ UNCHANGED <<i, cv_validation_results>>
                ELSE /\ i' = i + 1
                     /\ GoesOn(AfterChunk(i + 1, content_chunks))
                     /\ cv_validation_results' =
                           [summary |-> [total_chunks |-> summary.total_chunks,
                                         validated_chunks |->
                                             summary.validated_chunks + it.validated,
                                         issues_found |->
                                             summary.issues_found + it.issues],
                            chunks |-> cv_validation_results.chunks \o it.appended]
    /\ UNCHANGED <<impl, kb_id, runs, content, scope, output_path, content_chunks,
                   validated_chunks, issues_found, validation_results, returned,
                   result_file, result_writes, heap>>
    /\ UNCHANGED reporting

\* One iteration of the loop of validate_content, the model replying with
\* one of replies.
ValidateContentChunk(replies) == ValidateContentChunkOn(RetrievalAnswers, replies)

\* One iteration of the loop of validate_file, the retrieval answering with
\* one of answers and the model replying with one of replies.
ValidateFileChunkOn(answers, replies) ==
    /\ impl = "workflow"
    /\ pc = "PerChunkAnalysis"
    /\ \E answer \in answers, reply \in replies :
          LET it == ValidateFileIteration(content_chunks[i], answer, reply)
          IN /\ IterationLocals(it, answer, reply)
             /\ validated_chunks' = validated_chunks \o it.appended
             /\ IF it.raised # "none"
                THEN /\ Fails(it.raised)
                     /\ UNCHANGED <<i, issues_found>>
                ELSE /\ i' = i + 1
                     /\ GoesOn(AfterChunk(i + 1, content_chunks))
                     /\ issues_found' = issues_found + it.issues
    /\ UNCHANGED <<impl, kb_id, runs, content, scope, output_path, content_chunks,
                   cv_validation_results, validation_results, returned,
                   result_file, result_writes, heap>>
    /\ UNCHANGED reporting

\* One iteration of the loop of validate_file.
ValidateFileChunk(replies) == ValidateFileChunkOn(RetrievalAnswers, replies)

\* overall_status of a result with n issues.
OverallStatus(n) == IF n = 0 THEN "valid" ELSE "issues_found"

\* The save of a result: nothing without an output path; else the write
\* succeeds or fails.
SaveOutcomes == IF output_path THEN {"written", "failed"} ELSE {"skipped"}

\* The save of the result final and the return.
SaveAndReturn(final) ==
    \E save \in SaveOutcomes :
        /\ result_file' = IF save = "written" THEN final ELSE result_file
        /\ result_writes' = result_writes + (IF save = "written" THEN 1 ELSE 0)
        /\ IF save = "failed"
           THEN Fails("PersistenceFailure") /\ returned' = returned
           ELSE GoesOn("Done") /\ returned' = final

\* The end of validate_content: overall_status, the save, the return.
ValidateContentFinish ==
    /\ impl = "validator"
    /\ pc = "Aggregating"
    /\ LET final == [summary |-> cv_validation_results.summary,
                     chunks |-> cv_validation_results.chunks,
                     overall_status |->
                         OverallStatus(cv_validation_results.summary.issues_found)]
       IN /\ cv_validation_results' = final
          /\ SaveAndReturn(final)
    /\ UNCHANGED <<impl, kb_id, runs, content, scope, output_path, content_chunks,
                   i, passages, response, query, prompt, validated_chunks,
                   issues_found, validation_results, retrieval_calls, model_calls,
                   heap>>
    /\ UNCHANGED reporting

\* The file a workflow run reads: the path stands for its content.
FilePath(c) == <<"file">> \o c

\* The assignment made on the object built last, in place of a new object.
UpdateDict(objects, d) ==
    IF objects = <<>> THEN <<d>> ELSE [objects EXCEPT ![Len(objects)] = d]

\* A dict display builds a new object: the objects built before stay as
\* they are.
NewDict(objects, d) == Append(objects, d)

\* The end of validate_file: self.validation_results is bound to the new
\* result, then the save, then the return.
ValidateFileFinish ==
    /\ impl = "workflow"
    /\ pc = "Aggregating"
    /\ LET final == [file_path |-> FilePath(content), scope |-> scope,
                     overall_status |-> OverallStatus(issues_found),
                     summary |-> [validated_chunks |-> Len(content_chunks),
                                  issues_found |-> issues_found],
                     chunks |-> validated_chunks]
       IN /\ heap' = NewDict(heap, final)
          /\ validation_results' = heap'[Len(heap')]
          /\ SaveAndReturn(heap'[Len(heap')])
    /\ UNCHANGED <<impl, kb_id, runs, content, scope, output_path, content_chunks,
                   i, passages, response, query, prompt, cv_validation_results,
                   validated_chunks, issues_found, retrieval_calls, model_calls>>
    /\ UNCHANGED reporting

\* ------------------------------------------------------------ the report
\*
\* A report is a sequence of pieces: the literal texts of the renderer (those
\* of the HTML renderer without indentation and style sheet) and the values it interpolates (a text character
\* by character, a number in decimal, a status or a message as one piece).

\* The formats generate_validation_report may be asked for.
OutputFormats == {"markdown", "html", "pdf"}

\* The line of three backquotes that opens and closes a block of code in
\* Markdown (a string of the model cannot hold a backquote).
CodeFence == "<code fence>"

\* chunk['message'] and chunk['suggestions'] are read without a default.
HasReportFields(chunk) == {"message", "suggestions"} \subseteq DOMAIN chunk

\* The list items of the suggestions of one issue, in Markdown.
RECURSIVE MarkdownSuggestions(_)
MarkdownSuggestions(suggestions) ==
    IF suggestions = <<>> THEN <<>>
    ELSE <<"- ", Head(suggestions), NL>> \o MarkdownSuggestions(Tail(suggestions))

\* The subsection of the chunk at index k (from 1, as enumerate's i + 1).
MarkdownIssue(k, chunk) ==
    <<"### Issue ", ToString(k), "\n\n", "**Content:**\n\n", CodeFence, NL>>
    \o chunk.content
    \o <<NL, CodeFence, "\n\n", "**Status:** ", chunk.status, "\n\n",
         "**Message:** ", chunk.message, "\n\n">>
    \o (IF chunk.suggestions # <<>>
        THEN <<"**Suggestions:**\n\n">> \o MarkdownSuggestions(chunk.suggestions)
             \o <<NL>>
        ELSE <<>>)

\* The loop over the chunks from index k on: a subsection for every chunk
\* that is not "valid"; a KeyError at the first of them that lacks a field.
RECURSIVE MarkdownIssues(_, _)
MarkdownIssues(chunks, k) ==
    IF k > Len(chunks) THEN Return(<<>>)
    ELSE IF chunks[k].status = "valid" THEN MarkdownIssues(chunks, k + 1)
    ELSE IF ~HasReportFields(chunks[k]) THEN Raise("KeyError")
    ELSE LET rest == MarkdownIssues(chunks, k + 1)
         IN IF rest.raised # "none" THEN rest
            ELSE Return(MarkdownIssue(k, chunks[k]) \o rest.value)

\* ContentValidationWorkflow._generate_markdown_report.
GenerateMarkdownReport(results) ==
    LET header ==
            <<"# Content Validation Report\n\n", "**File:** ">>
            \o results.file_path
            \o <<NL, "**Scope:** ", results.scope, NL,
                 "**Status:** ", results.overall_status, NL,
                 "**Chunks Validated:** ",
                 ToString(results.summary.validated_chunks), NL,
                 "**Issues Found:** ", ToString(results.summary.issues_found),
                 "\n\n">>
        issues == MarkdownIssues(results.chunks, 1)
    IN IF results.summary.issues_found > 0
       THEN IF issues.raised # "none" THEN issues
            ELSE Return(header \o <<"## Issues\n\n">> \o issues.value)
       ELSE Return(header)

\* The list items of the suggestions of one issue, in HTML.
RECURSIVE HtmlSuggestions(_)
HtmlSuggestions(suggestions) ==
    IF suggestions = <<>> THEN <<>>
    ELSE <<"<li>", Head(suggestions), "</li>">> \o HtmlSuggestions(Tail(suggestions))

\* The part of the HTML report for the chunk at index k, numbered with
\* enumerate's i in place of i + 1.
HtmlIssueFromZero(k, chunk) ==
    <<"<h3>Issue ", ToString(k - 1), "</h3>", "<div class='content'><pre>">>
    \o chunk.content
    \o <<"</pre></div>",
         "<p><strong>Status:</strong> <span class='issues'>", chunk.status,
         "</span></p>",
         "<p><strong>Message:</strong> ", chunk.message, "</p>">>
    \o (IF chunk.suggestions # <<>>
        THEN <<"<p><strong>Suggestions:</strong></p><ul class='suggestions'>">>
             \o HtmlSuggestions(chunk.suggestions) \o <<"</ul>">>
        ELSE <<>>)

\* The part of the HTML report for the chunk at index k.
HtmlIssue(k, chunk) ==
    <<"<h3>Issue ", ToString(k), "</h3>", "<div class='content'><pre>">>
    \o chunk.content
    \o <<"</pre></div>",
         "<p><strong>Status:</strong> <span class='issues'>", chunk.status,
         "</span></p>",
         "<p><strong>Message:</strong> ", chunk.message, "</p>">>
    \o (IF chunk.suggestions # <<>>
        THEN <<"<p><strong>Suggestions:</strong></p><ul class='suggestions'>">>
             \o HtmlSuggestions(chunk.suggestions) \o <<"</ul>">>
        ELSE <<>>)

\* The loop of the HTML renderer over the chunks from index k on.
RECURSIVE HtmlIssues(_, _)
HtmlIssues(chunks, k) ==
    IF k > Len(chunks) THEN Return(<<>>)
    ELSE IF chunks[k].status = "valid" THEN HtmlIssues(chunks, k + 1)
    ELSE IF ~HasReportFields(chunks[k]) THEN Raise("KeyError")
    ELSE LET rest == HtmlIssues(chunks, k + 1)
         IN IF rest.raised # "none" THEN rest
            ELSE Return(HtmlIssue(k, chunks[k]) \o rest.value)

\* ContentValidationWorkflow._generate_html_report.
GenerateHtmlReport(results) ==
    LET header ==
            <<"<!DOCTYPE html><html><head><title>Content Validation Report</title></head>",
              "<body><h1>Content Validation Report</h1>",
              "<div class=\"summary\">", "<p><strong>File:</strong> ">>
            \o results.file_path
            \o <<"</p>", "<p><strong>Scope:</strong> ", results.scope, "</p>",
                 "<p><strong>Status:</strong> <span class=\"",
                 IF results.overall_status = "valid" THEN "valid" ELSE "issues",
                 "\">", results.overall_status, "</span></p>",
                 "<p><strong>Chunks Validated:</strong> ",
                 ToString(results.summary.validated_chunks), "</p>",
                 "<p><strong>Issues Found:</strong> ",
                 ToString(results.summary.issues_found), "</p>", "</div>">>
        issues == HtmlIssues(results.chunks, 1)
        footer == <<"</body></html>">>
    IN IF results.summary.issues_found > 0
       THEN IF issues.raised # "none" THEN issues
            ELSE Return(header \o <<"<h2>Issues</h2>">> \o issues.value \o footer)
       ELSE Return(header \o footer)

\* The renderer generate_validation_report picks: the Markdown one for
\* "markdown", the HTML one for every other format.
RenderReport(output_format, results) ==
    IF output_format = "markdown"
    THEN GenerateMarkdownReport(results)
    ELSE GenerateHtmlReport(results)

\* A renderer that takes the verdicts out of the results as it goes.
ResultsWithoutChunks(results) == [results EXCEPT !.chunks = <<>>]

\* What the object holds in validation_results after a report was made of
\* them: the renderers only read them.
ResultsAfterReport(results) == results

\* generate_validation_report without its first check: with no results it
\* returns an empty report.
ReportCallUnchecked(output_format, save) ==
    LET rendered == IF validation_results = None
                    THEN Return(<<>>)
                    ELSE RenderReport(output_format, validation_results)
        raised == IF rendered.raised # "none" THEN rendered.raised
                  ELSE IF save = "failed" THEN "PersistenceFailure"
                  ELSE "none"
    IN /\ report' = [output_format |-> output_format,
                     results |-> validation_results,
                     raised |-> raised,
                     text |-> IF raised = "none" THEN rendered.value ELSE Unbound]
       /\ report_file' = IF rendered.raised = "none" /\ save = "written"
                         THEN rendered.value ELSE report_file
       /\ validation_results' = validation_results

\* ContentValidationWorkflow.generate_validation_report with the format
\* output_format: it raises without results, renders, writes the report when
\* given an output path (save tells whether, and whether the write fails),
\* and returns the report.
ReportCall(output_format, save) ==
    LET rendered == IF validation_results = None
                    THEN Raise("NoValidationResults")
                    ELSE RenderReport(output_format, validation_results)
        raised == IF rendered.raised # "none" THEN rendered.raised
                  ELSE IF save = "failed" THEN "PersistenceFailure"
                  ELSE "none"
    IN /\ report' = [output_format |-> output_format,
                     results |-> validation_results,
                     raised |-> raised,
                     text |-> IF raised = "none" THEN rendered.value ELSE Unbound]
       /\ report_file' = IF rendered.raised = "none" /\ save = "written"
                         THEN rendered.value ELSE report_file
       /\ validation_results' =
             IF rendered.raised = "none"
             THEN ResultsAfterReport(validation_results)
             ELSE validation_results

\* What neither a report nor the end of the command touches.
run == <<impl, kb_id, runs, pc, content, scope, output_path, content_chunks, i,
         passages, response, query, prompt, cv_validation_results,
         validated_chunks, issues_found, returned, error, retrieval_calls,
         model_calls, result_file, result_writes, heap, provisioning>>

\* generate_validation_report is called on a workflow while no run is under
\* way.
GenerateValidationReport ==
    /\ impl = "workflow"
    /\ pc \in {"NotStarted", "Done", "Failed"}
    /\ \E output_format \in OutputFormats, save \in {"skipped", "written", "failed"} :
          ReportCall(output_format, save)
    /\ UNCHANGED run
    /\ UNCHANGED exit_status

\* ------------------------------------------------------------ the command

\* The validate-content command, from its entry to the call of
\* validate_file: without an AWS profile it prints a message and returns;
\* else it builds a workflow and calls validate_file on the file, with a
\* scope of the four its option admits.
CliValidateContent ==
    /\ impl = "workflow"
    /\ pc = "NotStarted"
    /\ exit_status = <<>>
    /\ \/ /\ exit_status' = <<0>>
          /\ UNCHANGED run
          /\ UNCHANGED <<validation_results, report, report_file>>
       \/ ValidateFileCall({"NotStarted"}, RunDocs, ValidScopes)

\* The display of a result raises where the report does: at an issue
\* without message or suggestions.
DisplayRaises(results) ==
    /\ results.summary.issues_found > 0
    /\ \E k \in 1..Len(results.chunks) :
          results.chunks[k].status # "valid" /\ ~HasReportFields(results.chunks[k])

\* The command after validate_file returned: it displays the result, has
\* the report made and written when asked to, and returns; an exception of
\* the display or of the report is caught and printed.
CliDisplay ==
    /\ impl = "workflow"
    /\ pc = "Done"
    /\ exit_status = <<>>
    /\ \E asked \in BOOLEAN, report_format \in {"markdown", "html"},
          save \in {"written", "failed"} :
          IF asked /\ ~DisplayRaises(returned)
          THEN ReportCall(report_format, save)
          ELSE UNCHANGED <<validation_results, report, report_file>>
    /\ exit_status' = <<0>>
    /\ UNCHANGED run

\* The command after validate_file raised: the except clause prints the
\* exception and the command returns.
CliExcept ==
    /\ impl = "workflow"
    /\ pc = "Failed"
    /\ exit_status = <<>>
    /\ exit_status' = <<0>>
    /\ UNCHANGED run
    /\ UNCHANGED <<validation_results, report, report_file>>

\* -------------------------------------------------- the knowledge base client

\* The default of max_attempts of both pollers; no caller passes another.
max_attempts == 30

\* The statuses a status call may report.
Statuses ==
    {"AVAILABLE", "CREATING", "UPDATING", "COMPLETE", "IN_PROGRESS", "STARTING",
     "FAILED"}

\* What a status call may give: a response with a status, a response
\* without one, or a ClientError.
StatusReplies == Statuses \cup {"<no status>", "ClientError"}

\* One iteration of a poller's loop that takes an unexpected status for one
\* in progress.
PollOutcomeLenient(reply, done, in_progress) ==
    CASE reply = "ClientError" -> "continue"
      [] reply = "<no status>" -> "KeyError"
      [] reply = done -> "return"
      [] OTHER -> "continue"

\* One iteration of a poller's loop on the reply of its status call: the
\* poller returns at the status done, sleeps and goes on at a status in
\* progress and at a ClientError, and raises at every other status.
PollOutcome(reply, done, in_progress) ==
    CASE reply = "ClientError" -> "continue"
      [] reply = "<no status>" -> "KeyError"
      [] reply = done -> "return"
      [] reply \in in_progress -> "continue"
      [] OTHER -> "ValueError"

\* upload_document with the ingestion started before the file is uploaded.
NextStepIngestFirst(call) ==
    CASE call = "create_knowledge_base" -> "wait_for_knowledge_base"
      [] call = "create_data_source" -> "get_knowledge_base"
      [] call = "get_knowledge_base" -> "ingest_data"
      [] call = "ingest_data" -> "upload_fileobj"
      [] call = "upload_fileobj" -> "wait_for_ingestion"

\* What an operation does after a call returned.
NextStep(call) ==
    CASE call = "create_knowledge_base" -> "wait_for_knowledge_base"
      [] call = "create_data_source" -> "get_knowledge_base"
      [] call = "get_knowledge_base" -> "upload_fileobj"
      [] call = "upload_fileobj" -> "ingest_data"
      [] call = "ingest_data" -> "wait_for_ingestion"

\* What no operation of the KnowledgeBaseClient touches.
validation ==
    <<impl, kb_id, runs, pc, content, scope, output_path, content_chunks, i,
      passages, response, query, prompt, cv_validation_results, validated_chunks,
      issues_found, validation_results, returned, error, retrieval_calls,
      model_calls, result_file, result_writes, heap, report, report_file,
      exit_status>>

\* The operation raises e.
KbRaises(e) ==
    /\ kb_step' = "raised"
    /\ kb_error' = e
    /\ kb_returned' = "none"

\* The operation goes on with the call to.
KbGoesOn(to) ==
    /\ kb_step' = to
    /\ UNCHANGED <<kb_error, kb_returned>>

\* create_knowledge_base up to its poller: it builds the configuration,
\* which asks for the account id, and calls the service; a ClientError of
\* either is logged and raised again, and a response without
\* knowledgeBaseId is a KeyError.
CreateKnowledgeBase ==
    /\ kb_step = "idle"
    /\ kb_operation' = "create_knowledge_base"
    /\ \E account \in {"ok", "ClientError"}, reply \in {"ok", "ClientError", "KeyError"} :
          IF account # "ok"
          THEN /\ KbRaises(account)
               /\ UNCHANGED service_calls
          ELSE /\ service_calls' = Append(service_calls, "create_knowledge_base")
               /\ IF reply = "ok" THEN KbGoesOn(NextStep("create_knowledge_base"))
                  ELSE KbRaises(reply)
    /\ UNCHANGED <<data_source_id, attempts, status_calls, status_reply>>
    /\ UNCHANGED validation

\* upload_document up to get_knowledge_base: without a data_source_id it
\* makes one and creates the data source.
UploadDocument ==
    /\ kb_step = "idle"
    /\ kb_operation' = "upload_document"
    /\ \E given \in BOOLEAN, reply \in {"ok", "ClientError"} :
          IF given
          THEN /\ data_source_id' = "given"
               /\ UNCHANGED service_calls
               /\ KbGoesOn(NextStep("create_data_source"))
          ELSE /\ service_calls' = Append(service_calls, "create_data_source")
               /\ IF reply = "ok"
                  THEN /\ data_source_id' = "created"
                       /\ KbGoesOn(NextStep("create_data_source"))
                  ELSE /\ UNCHANGED data_source_id
                       /\ KbRaises(reply)
    /\ UNCHANGED <<attempts, status_calls, status_reply>>
    /\ UNCHANGED validation

\* A call of upload_document: it returns, or it raises one of failures.
ServiceCall(call, failures) ==
    /\ kb_step = call
    /\ service_calls' = Append(service_calls, call)
    /\ \E reply \in {"ok"} \cup failures :
          IF reply = "ok" THEN KbGoesOn(NextStep(call)) ELSE KbRaises(reply)
    /\ UNCHANGED <<kb_operation, data_source_id, attempts, status_calls, status_reply>>
    /\ UNCHANGED validation

\* upload_document reads the bucket and the prefix of the knowledge base: a
\* ClientError of get_knowledge_base, or a KeyError of the lookups.
GetKnowledgeBase == ServiceCall("get_knowledge_base", {"ClientError", "KeyError"})

\* upload_document opens the file and uploads it: an OSError of open comes
\* before the upload is called.
UploadFileobj ==
    \/ ServiceCall("upload_fileobj", {"ClientError"})
    \/ /\ kb_step = "upload_fileobj"
       /\ KbRaises("OSError")
       /\ UNCHANGED <<kb_operation, data_source_id, service_calls, attempts,
                      status_calls, status_reply>>
       /\ UNCHANGED validation

\* upload_document starts the ingestion: a ClientError of ingest_data, or a
\* KeyError when the response has no ingestionJobId.
IngestData == ServiceCall("ingest_data", {"ClientError", "KeyError"})

\* One iteration of the loop of a poller, with the return of the operation
\* when the poller returns and the TimeoutError after the last iteration.
PollerAttempt(step, done, in_progress) ==
    /\ kb_step = step
    /\ attempts < max_attempts
    /\ attempts' = attempts + 1
    /\ status_calls' = status_calls + 1
    /\ \E reply \in StatusReplies :
          LET outcome == PollOutcome(reply, done, in_progress)
          IN /\ status_reply' = reply
             /\ CASE outcome = "return" ->
                        /\ kb_step' = "returned"
                        /\ kb_returned' = "response"
                        /\ UNCHANGED kb_error
                  [] outcome = "continue" ->
                        IF attempts + 1 = max_attempts
                        THEN KbRaises("TimeoutError")
                        ELSE KbGoesOn(step)
                  [] OTHER -> KbRaises(outcome)
    /\ UNCHANGED <<kb_operation, data_source_id, service_calls>>
    /\ UNCHANGED validation

\* KnowledgeBaseClient._wait_for_knowledge_base
WaitForKnowledgeBase ==
    PollerAttempt("wait_for_knowledge_base", "AVAILABLE", {"CREATING", "UPDATING"})

\* KnowledgeBaseClient._wait_for_ingestion
WaitForIngestion ==
    PollerAttempt("wait_for_ingestion", "COMPLETE", {"IN_PROGRESS", "STARTING"})

\* ------------------------------------------------------ the specifications

\* One run on a fresh object.
Next ==
    \/ ValidateContentCall({"NotStarted"}, RunDocs, Scopes)
    \/ ValidateFileCall({"NotStarted"}, RunDocs, Scopes)
    \/ Split
    \/ ValidateContentChunk(ModelReplies)
    \/ ValidateFileChunk(ModelReplies)
    \/ ValidateContentFinish
    \/ ValidateFileFinish

Spec == Init /\ [][Next]_vars

\* The same run, which goes on while it has a step to take: the code runs
\* to its return or to the exception that ends it.
FairSpec == Init /\ [][Next]_vars /\ WF_vars(Next)

\* The splitters alone, on every document of Docs: the state is that of a
\* run that has its document and is about to split it.
SplitInit ==
    /\ impl \in {"validator", "workflow"}
    /\ kb_id = TRUE
    /\ runs = 1
    /\ pc = "Chunking"
    /\ content \in Docs
    /\ scope \in Scopes
    /\ output_path = FALSE
    /\ content_chunks = <<>>
    /\ i = 1
    /\ passages = Unbound
    /\ response = None
    /\ query = Unbound
    /\ prompt = Unbound
    /\ cv_validation_results = None
    /\ validated_chunks = <<>>
    /\ issues_found = 0
    /\ validation_results = None
    /\ returned = None
    /\ error = "none"
    /\ retrieval_calls = 0
    /\ model_calls = 0
    /\ result_file = None
    /\ result_writes = 0
    /\ heap = <<>>
    /\ report = None
    /\ report_file = Unbound
    /\ exit_status = <<>>
    /\ ProvisioningInit

SplitNext == Split

SplitSpec == SplitInit /\ [][SplitNext]_vars

\* Repeated runs on one object, over few inputs: a one-chunk and a
\* two-chunk document, a scope that splits it, and a reply of each kind.
RerunDocs == {<<"a">>, <<"a", OpenTag, "b">>}

RerunScopes == {"full", "section", OtherScope}

RerunReplies ==
    {[kind |-> "error"], [kind |-> "notjson"]} \cup
    {[kind |-> "object", obj |-> o] : o \in FullObjects}

Idle == {"NotStarted", "Done", "Failed"}

RerunNext ==
    \/ ValidateContentCall(Idle, RerunDocs, RerunScopes)
    \/ ValidateFileCall(Idle, RerunDocs, RerunScopes)
    \/ Split
    \/ ValidateContentChunk(RerunReplies)
    \/ ValidateFileChunk(RerunReplies)
    \/ ValidateContentFinish
    \/ ValidateFileFinish

RerunSpec == Init /\ [][RerunNext]_vars

\* One run of a workflow and the reports made of its result, over documents
\* of one, two and three paragraphs and replies that are no JSON, complete
\* objects, or objects with the status alone.
ReportDocs ==
    {<<"a">>, <<"a", NL, NL, "b">>, <<"a", NL, NL, "b", NL, NL, "a">>}

ReportScopes == {"paragraph", "full"}

ReportReplies ==
    {[kind |-> "notjson"]} \cup
    {[kind |-> "object", obj |-> o] : o \in FullObjects} \cup
    {[kind |-> "object", obj |-> [status |-> st]] : st \in {"valid", "issues_found"}}

ReportNext ==
    \/ ValidateFileCall({"NotStarted"}, ReportDocs, ReportScopes)
    \/ Split
    \/ ValidateFileChunk(ReportReplies)
    \/ ValidateFileFinish
    \/ GenerateValidationReport

ReportSpec == Init /\ [][ReportNext]_vars

\* One run of the validate-content command.
CliInit == Init /\ impl = "workflow"

CliNext ==
    \/ CliValidateContent
    \/ Split
    \/ ValidateFileChunk(ModelReplies)
    \/ ValidateFileFinish
    \/ CliDisplay
    \/ CliExcept

CliSpec == CliInit /\ [][CliNext]_vars

\* One run, with what it sends to the two services: over a short document
\* of one chunk, one of two sentences, and documents about as long as the
\* limit of the query; the retrieval answers with one result of up to
\* MaxPromptSpans spans, each span a passage of its own.
\* The long documents are validated whole.
PromptDocs == {<<"a">>, <<"a", ".", SP, "b">>}

PromptScopes == {"full", "sentence"}

LongDocs == {[k \in 1..n |-> "a"] : n \in (QueryLimit - 1)..(QueryLimit + MaxOver)}

PromptAnswers ==
    {[ok |-> FALSE]} \cup
    {[ok |-> TRUE, retrievalResults |-> <<[j \in 1..m |-> ToString(j)]>>] :
        m \in 0..MaxPromptSpans}

PromptReplies ==
    {[kind |-> "notjson"]} \cup {[kind |-> "object", obj |-> o] : o \in FullObjects}

PromptNext ==
    \/ ValidateContentCall({"NotStarted"}, PromptDocs, PromptScopes)
    \/ ValidateContentCall({"NotStarted"}, LongDocs, {"full"})
    \/ ValidateFileCall({"NotStarted"}, PromptDocs, PromptScopes)
    \/ ValidateFileCall({"NotStarted"}, LongDocs, {"full"})
    \/ Split
    \/ ValidateContentChunkOn(PromptAnswers, PromptReplies)
    \/ ValidateFileChunkOn(PromptAnswers, PromptReplies)
    \/ ValidateContentFinish
    \/ ValidateFileFinish

PromptSpec == Init /\ [][PromptNext]_vars

\* Repeated runs of a workflow, some of which fail, and the reports made
\* between them, over two one-chunk documents.
FailDocs == {<<"a">>, <<"b">>}

FailScopes == {"full", OtherScope}

FailAnswers == {[ok |-> FALSE], [ok |-> TRUE, retrievalResults |-> <<<<"p">>>>]}

FailReplies ==
    {[kind |-> "error"],
     [kind |-> "object",
      obj |-> [status |-> "issues_found", message |-> "m", references |-> <<"r">>,
               suggestions |-> <<"s">>]]}

FailInit == Init /\ impl = "workflow"

FailNext ==
    \/ ValidateFileCall(Idle, FailDocs, FailScopes)
    \/ Split
    \/ ValidateFileChunkOn(FailAnswers, FailReplies)
    \/ ValidateFileFinish
    \/ GenerateValidationReport

FailSpec == FailInit /\ [][FailNext]_vars

\* One operation of a KnowledgeBaseClient.
ProvisionNext ==
    \/ CreateKnowledgeBase
    \/ WaitForKnowledgeBase
    \/ UploadDocument
    \/ GetKnowledgeBase
    \/ UploadFileobj
    \/ IngestData
    \/ WaitForIngestion

ProvisionSpec == Init /\ [][ProvisionNext]_vars

\* The operation is not stopped from outside: a step it can take is taken.
ProvisionFairSpec == ProvisionSpec /\ WF_vars(ProvisionNext)

\* ------------------------------------------------------------- the claims

\* The verdicts the current run has collected so far.
Verdicts ==
    IF impl = "validator"
    THEN (IF cv_validation_results = None THEN <<>> ELSE cv_validation_results.chunks)
    ELSE validated_chunks

\* The verdict the latest iteration appended.
LastVerdict == Verdicts[Len(Verdicts)]

\* The failures of a call to a service.
CallFailures == {"RetrievalFailure", "ModelInvocationFailure"}

\* The failures the run checks for before it touches a chunk.
StructuralFailures == {"InvalidScope", "UnreadableInput", "MissingKnowledgeBaseId"}

\* The model replied, and the reply is not JSON or is JSON but no object.
MalformedReply(r) ==
    r # None /\ r.kind \in {"notjson", "array", "string", "number", "null"}

\* C1: in the result a completed run returns, overall_status is "valid"
\* exactly when every stored verdict is "valid", and summary.issues_found is
\* the number of stored verdicts that are not "valid".
AggregationInvariant ==
    pc = "Done" =>
        LET nonvalid == {k \in 1..Len(returned.chunks) :
                            returned.chunks[k].status # "valid"}
        IN /\ (returned.overall_status = "valid") <=> (nonvalid = {})
           /\ returned.summary.issues_found = Cardinality(nonvalid)

\* C2: a retrieval call or a model call that fails does not abort the run:
\* no run ends with the exception of a failed call.
FailureIsolation == ~(pc = "Failed" /\ error \in CallFailures)

\* C3: when the model replied with text that is not JSON, or JSON that is no
\* object, the decoding raises nothing and the chunk's verdict is "unknown"
\* or "error".
MalformedOutputResilience ==
    MalformedReply(response) =>
        /\ error # "TypeError"
        /\ error = "none" => LastVerdict.status \in {"unknown", "error"}

\* C4: an iteration whose retrieval yields no passages does not invoke the
\* model, and it appends a verdict of status "unknown".
ZeroPassageHandling ==
    [][(retrieval_calls' = retrieval_calls + 1 /\ passages' = <<>>) =>
          /\ model_calls' = model_calls
          /\ Len(Verdicts') = Len(Verdicts) + 1
          /\ LastVerdict'.status = "unknown"]_vars

\* C5: a run that fails fails with a structural failure, before the first
\* retrieval call and the first model call.
AllOrNothing ==
    pc = "Failed" =>
        /\ error \in StructuralFailures
        /\ retrieval_calls = 0
        /\ model_calls = 0

\* C6: every verdict of a returned result has the four fields status,
\* message, suggestions and references, and a field the model's reply omitted
\* holds its default in the verdict made from that reply.
WellFormedVerdicts ==
    /\ pc = "Done" =>
          \A k \in 1..Len(returned.chunks) : Fields \subseteq DOMAIN returned.chunks[k]
    /\ (response # None /\ response.kind = "object" /\ error = "none") =>
          \A f \in Fields \ DOMAIN response.obj :
              f \in DOMAIN LastVerdict /\ LastVerdict[f] = FieldDefault(f)

\* C7: the splitter returns no chunk that is empty or whitespace-only, and
\* exactly one chunk for the scope "full".
ChunkerOutputClean ==
    pc \in {"PerChunkAnalysis", "Aggregating"} =>
        /\ \A k \in 1..Len(content_chunks) : StripTruthy(content_chunks[k])
        /\ scope = "full" => Len(content_chunks) = 1

OrderingGuarantee ==
    pc = "Done" =>
        [k \in 1..Len(returned.chunks) |-> returned.chunks[k].content] = content_chunks

\* C10: summary.validated_chunks of a returned result is the number of its
\* verdicts.
ValidatedChunksCountsVerdicts ==
    pc = "Done" => returned.summary.validated_chunks = Len(returned.chunks)

\* The statuses of the verdict vocabulary: those the two prompts ask for and
\* those of the fallback verdicts.
StatusVocabulary ==
    {"valid", "minor_issues", "issues_found", "major_issues", "unknown", "error"}

\* C11: the status of every verdict of a returned result is one of valid,
\* minor_issues, issues_found, major_issues, unknown, error, whatever the
\* model replied.
ClosedVerdictVocabulary ==
    pc = "Done" =>
        \A k \in 1..Len(returned.chunks) :
            returned.chunks[k].status \in StatusVocabulary

\* The verdicts of chunks that are not "valid", in order.
NonValid(chunks) == SelectSeq(chunks, LAMBDA c : c.status # "valid")

\* The places of a report where an issue subsection of Markdown starts.
IssueStarts(text) == {p \in 1..Len(text) : text[p] = "### Issue "}

\* The j-th issue subsection of a Markdown report: from its heading to the
\* next heading or the end.
IssueSection(text, j) ==
    LET starts == IssueStarts(text)
        from == CHOOSE p \in starts : Cardinality({q \in starts : q < p}) = j - 1
        later == {q \in starts : q > from}
        to == IF later = {} THEN Len(text)
              ELSE (CHOOSE q \in later : \A q2 \in later : q <= q2) - 1
    IN SubSeq(text, from, to)

\* sub occurs in s as a contiguous part.
Occurs(sub, s) ==
    \E p \in 0..(Len(s) - Len(sub)) : SubSeq(s, p + 1, p + Len(sub)) = sub

\* The Markdown report of a result holds one issue subsection for each
\* verdict that is not "valid", in order, each with the text of its chunk.
IssuesOfReport(text, chunks) ==
    /\ Cardinality(IssueStarts(text)) = Len(NonValid(chunks))
    /\ \A j \in 1..Len(NonValid(chunks)) :
          Occurs(<<CodeFence, NL>> \o NonValid(chunks)[j].content \o <<NL, CodeFence>>,
                 IssueSection(text, j))

\* C12: a Markdown report was asked of the result of a run with the scope
\* "paragraph" over a document of n paragraphs, k of them with a verdict
\* that is not "valid": the result has summary.total_chunks = n, issues_found
\* = k and overall_status "issues_found" exactly when k > 0, and the report
\* is rendered with exactly k issue subsections, each with the text of its
\* paragraph.
EndToEndParagraphReport ==
    (/\ report # None
     /\ report.output_format = "markdown"
     /\ report.results # None
     /\ report.results.scope = "paragraph"
     /\ report.raised # "PersistenceFailure") =>
        LET results == report.results
            k == Len(NonValid(results.chunks))
        IN /\ "total_chunks" \in DOMAIN results.summary
           /\ results.summary.total_chunks = Len(results.chunks)
           /\ Len(results.chunks) = Len(content_chunks)
           /\ results.summary.issues_found = k
           /\ results.overall_status = OverallStatus(k)
           /\ report.raised = "none"
           /\ IssuesOfReport(report.text, results.chunks)

PerChunkCallBudget ==
    /\ [][pc = "PerChunkAnalysis" =>
             /\ StripTruthy(content_chunks[i]) =>
                    retrieval_calls' = retrieval_calls + 1
             /\ model_calls' =
                    model_calls + (IF passages' \in {<<>>, Unbound} THEN 0 ELSE 1)]_vars
    /\ [](pc = "Done" /\ (\A k \in 1..Len(content_chunks) :
                              StripTruthy(content_chunks[k])) =>
             /\ retrieval_calls = Len(content_chunks)
             /\ model_calls <= retrieval_calls)

\* The steps of the state machine of a run, a failure apart.
RunSteps ==
    {<<"NotStarted", "Chunking">>, <<"Chunking", "PerChunkAnalysis">>,
     <<"Chunking", "Aggregating">>, <<"PerChunkAnalysis", "PerChunkAnalysis">>,
     <<"PerChunkAnalysis", "Aggregating">>, <<"Aggregating", "Done">>}

\* The failures of a call that did not return: to a service, or to the file
\* system.
ExternalFailures == CallFailures \cup {"PersistenceFailure", "UnreadableInput"}

\* C15: a run moves NotStarted, Chunking, PerChunkAnalysis once per chunk in
\* the order of the indices, Aggregating, Done; a run that has its document
\* and a valid scope reaches Done unless an external call did not return;
\* and at Done every chunk the splitter returned has exactly one verdict.
RunStateMachine ==
    /\ [][/\ pc' # "Failed" => <<pc, pc'>> \in RunSteps
          /\ (pc = "Chunking" /\ pc' # "Failed") => i' = 1
          /\ (pc = "PerChunkAnalysis" /\ pc' # "Failed") =>
                 /\ i' = i + 1
                 /\ (pc' = "Aggregating") <=> (i = Len(content_chunks))]_vars
    /\ (pc = "Chunking" /\ scope \in ValidScopes) ~>
           (pc = "Done" \/ (pc = "Failed" /\ error \in ExternalFailures))
    /\ [](pc = "Done" => Len(returned.chunks) = Len(content_chunks))

\* C16: validate_file binds validation_results to a result object it has
\* newly built, and no step of a later run changes a result object built
\* before: what an earlier call returned stays as it was returned.
RevalidationReplaces ==
    [][/\ \A k \in 1..Len(heap) : k <= Len(heap') /\ heap'[k] = heap[k]
       /\ ValidateFileFinish =>
              /\ Len(heap') = Len(heap) + 1
              /\ validation_results' = heap'[Len(heap')]]_vars

\* The second run of a workflow has returned a result that differs from
\* the one its first run built.
RevalidationReplacesWitness ==
    /\ impl = "workflow"
    /\ runs = 2
    /\ pc = "Done"
    /\ Len(heap) = 2
    /\ heap[1] # heap[2]
    /\ returned = heap[2]
    /\ validation_results = heap[2]

\* The result the run computed is in the caller's reach: returned to it, or
\* held by the object as validation_results.
ResultAvailable ==
    IF impl = "workflow"
    THEN validation_results # None /\ validation_results.chunks = validated_chunks
    ELSE returned # None /\ returned = cv_validation_results

\* C17: when the write of the result file fails, the result the run
\* computed stays available to the caller; when the write of the report file
\* fails, the results the report was made of stay as they were.
PersistenceFailureIsLocal ==
    /\ (pc = "Failed" /\ error = "PersistenceFailure") => ResultAvailable
    /\ (report # None /\ report.raised = "PersistenceFailure") =>
           (validation_results # None /\ validation_results = report.results)

\* C18: when the validate-content command has exited, its exit status is
\* that of success (0) exactly when the run of validate_file completed.
CliExitStatus ==
    exit_status # <<>> => ((exit_status = <<0>>) <=> (pc = "Done"))

\* C19: a report asked of stored results is rendered, in every format:
\* unless the write of the report file fails, the call raises nothing and
\* returns a string.
ReportAlwaysRenderable ==
    (report # None /\ report.results # None /\ report.raised # "PersistenceFailure") =>
        (report.raised = "none" /\ report.text # Unbound)

\* C20: the result file is written at most once in a run, in the step from
\* Aggregating to Done, when the loop over the chunks is over, and what is
\* written is the result with its overall_status that the run returns; a run
\* that fails before has written nothing and left the file as it was.
PersistenceIsFinalSnapshot ==
    [][/\ result_writes' <= 1
       /\ (result_writes' = result_writes + 1 \/ result_file' # result_file) =>
              /\ pc = "Aggregating" /\ pc' = "Done"
              /\ i > Len(content_chunks)
              /\ "overall_status" \in DOMAIN result_file'
              /\ result_file'.chunks = Verdicts
              /\ result_file' = returned'
       /\ (pc' = "Failed" /\ pc # "Failed") =>
              (result_writes' = 0 /\ result_file' = result_file)]_vars

\* The second run on an object, over two chunks, has written its result,
\* over the file of the first run.
PersistenceIsFinalSnapshotWitness ==
    /\ runs = 2
    /\ pc = "Done"
    /\ Len(content_chunks) = 2
    /\ Len(Verdicts) = 2
    /\ result_writes = 1
    /\ result_file = returned

\* The part of a prompt after the chunk: the heading of the passages, the
\* passages, and what follows them.
AfterChunkOfPrompt(text, chunk) == SubSeq(text, Len(chunk) + 2, Len(text))

\* The passages of ps that a prompt holds after its chunk.
PassagesInPrompt(text, chunk, ps) ==
    {k \in 1..Len(ps) : Contains(AfterChunkOfPrompt(text, chunk), ps[k])}

\* C21: the prompt of every model call holds the whole chunk, and of the
\* passages retrieved for it the first ones, five at most.
PassageCap ==
    [][model_calls' = model_calls + 1 =>
          LET chunk == content_chunks[i]
              held == PassagesInPrompt(prompt', chunk, passages')
          IN /\ SubSeq(prompt', 2, Len(chunk) + 1) = chunk
             /\ Cardinality(held) <= 5
             /\ \A k \in held : \A j \in 1..k : j \in held]_vars

\* C22: the query of every retrieval call is the prefix of its chunk of
\* length min(500, len(chunk)), so never longer than 500, and the verdict
\* made for the chunk holds the whole chunk.
QueryBound ==
    [][retrieval_calls' = retrieval_calls + 1 =>
          LET chunk == content_chunks[i]
              n == IF Len(chunk) < 500 THEN Len(chunk) ELSE 500
          IN /\ Len(query') = n
             /\ query' = SubSeq(chunk, 1, n)
             /\ Len(Verdicts') = Len(Verdicts) + 1 => LastVerdict'.content = chunk]_vars

\* A run over a chunk longer than 500 characters is done: its query was
\* 500 characters long, and its verdict holds the chunk.
QueryBoundWitness ==
    /\ pc = "Done"
    /\ Len(content_chunks) = 1
    /\ Len(content_chunks[1]) > 500
    /\ Len(query) = 500
    /\ Len(Verdicts) = 1
    /\ LastVerdict.content = content_chunks[1]

\* The characters of a text that are not whitespace, in order.
NonWhitespace(s) == SelectSeq(s, LAMBDA c : c \notin Whitespace)

\* The texts of xs, one after the other.
RECURSIVE Concat(_)
Concat(xs) == IF xs = <<>> THEN <<>> ELSE Head(xs) \o Concat(Tail(xs))

\* C23: the chunks the splitter returns, one after the other, are the
\* document up to whitespace: every character of the document that is not
\* whitespace is in the chunks once, in the order of the document.
ChunksPartitionDocument ==
    pc \in {"PerChunkAnalysis", "Aggregating"} =>
        NonWhitespace(Concat(content_chunks)) = NonWhitespace(content)

\* A document split by headers: one with no section tag.
HeaderBased(text) == ~Contains(text, OpenTag) /\ ~Contains(text, CloseTag)

\* The lines of a text that are heading lines: those that start with #.
HeadingLines(lines) == {k \in 1..Len(lines) : Len(lines[k]) >= 1 /\ lines[k][1] = "#"}

\* The lines at which a section starts: every heading line, and the first
\* line when it is not a heading.
SectionStarts(lines) == HeadingLines(lines) \cup {1}

\* The k-th smallest member of a set of numbers.
Nth(S, k) == CHOOSE s \in S : Cardinality({t \in S : t <= s}) = k

\* The section that starts at the k-th start: its lines up to, not
\* including, the next start.
SectionAt(lines, k) ==
    LET starts == SectionStarts(lines)
        last == IF k = Cardinality(starts) THEN Len(lines) ELSE Nth(starts, k + 1) - 1
    IN Join(NL, SubSeq(lines, Nth(starts, k), last))

\* C24: with scope section, a document without section tags is split at its
\* heading lines: there is one section for each heading line, and one more
\* when the first line is not a heading; every section after the first
\* begins with its heading line; each section is its first line and the
\* following lines up to, not including, the next heading line.
MarkdownSectionSplitting ==
    (/\ pc \in {"PerChunkAnalysis", "Aggregating"}
     /\ scope = "section"
     /\ HeaderBased(content)) =>
        LET lines == ReSplit("nl", content)
        IN /\ Len(content_chunks) = Cardinality(SectionStarts(lines))
           /\ \A k \in 2..Len(content_chunks) :
                  Len(content_chunks[k]) >= 1 /\ content_chunks[k][1] = "#"
           /\ \A k \in 1..Len(content_chunks) :
                  content_chunks[k] = SectionAt(lines, k)

\* The pieces that mark the places of a report in a format: the labels
\* before the file, the scope, the overall status and the two counts of the
\* summary; the heading of an issue; the pieces around the text of its
\* chunk, with the number of newline pieces between them and the text; the
\* labels before its status and its message; the piece before a suggestion.
Labels(output_format) ==
    IF output_format = "markdown"
    THEN [file |-> "**File:** ", scope |-> "**Scope:** ", status |-> "**Status:** ",
          validated |-> "**Chunks Validated:** ", issues |-> "**Issues Found:** ",
          issue |-> "### Issue ", content |-> CodeFence, content_end |-> CodeFence,
          pad |-> 1, issue_status |-> "**Status:** ", message |-> "**Message:** ",
          item |-> "- "]
    ELSE [file |-> "<p><strong>File:</strong> ", scope |-> "<p><strong>Scope:</strong> ",
          status |-> "\">",
          validated |-> "<p><strong>Chunks Validated:</strong> ",
          issues |-> "<p><strong>Issues Found:</strong> ",
          issue |-> "<h3>Issue ", content |-> "<div class='content'><pre>",
          content_end |-> "</pre></div>", pad |-> 0,
          issue_status |-> "<p><strong>Status:</strong> <span class='issues'>",
          message |-> "<p><strong>Message:</strong> ", item |-> "<li>"]

\* The places of a piece in a text, and the first and the last of them.
Places(text, piece) == {p \in 1..Len(text) : text[p] = piece}

First(text, piece) == CHOOSE p \in Places(text, piece) : \A q \in Places(text, piece) : p <= q

Last(text, piece) == CHOOSE p \in Places(text, piece) : \A q \in Places(text, piece) : p >= q

\* The j-th part of a text that starts with the piece: up to the next such
\* part or the end.
PartAt(text, piece, j) ==
    LET starts == Places(text, piece)
        to == IF j = Cardinality(starts) THEN Len(text) ELSE Nth(starts, j + 1) - 1
    IN SubSeq(text, Nth(starts, j), to)

\* What the part of a report about one issue shows.
IssueInfo(L, part) ==
    [number |-> part[2],
     content |-> SubSeq(part, First(part, L.content) + 1 + L.pad,
                        Last(part, L.content_end) - 1 - L.pad),
     status |-> part[First(part, L.issue_status) + 1],
     message |-> part[First(part, L.message) + 1],
     suggestions |-> [j \in 1..Cardinality(Places(part, L.item)) |->
                         part[Nth(Places(part, L.item), j) + 1]]]

\* What a report in a format shows: the file, the scope, the overall
\* status, the two counts and the issues in the order of the report.
ReportInfo(output_format, text) ==
    LET L == Labels(output_format)
    IN [file |-> SubSeq(text, First(text, L.file) + 1, First(text, L.scope) - 2),
        scope |-> text[First(text, L.scope) + 1],
        status |-> text[First(text, L.status) + 1],
        validated_chunks |-> text[First(text, L.validated) + 1],
        issues_found |-> text[First(text, L.issues) + 1],
        issues |-> [j \in 1..Cardinality(Places(text, L.issue)) |->
                       IssueInfo(L, PartAt(text, L.issue, j))]]

\* The issues a report of the results is to show: the verdicts that are not
\* "valid", in order, numbered with their place among the verdicts.
IssuesOfResults(results) ==
    LET at == {k \in 1..Len(results.chunks) : results.chunks[k].status # "valid"}
    IN [j \in 1..Cardinality(at) |->
           LET chunk == results.chunks[Nth(at, j)]
           IN [number |-> ToString(Nth(at, j)), content |-> chunk.content,
               status |-> chunk.status, message |-> chunk.message,
               suggestions |-> chunk.suggestions]]

\* The format that is rendered by the other renderer.
OtherFormat(output_format) == IF output_format = "markdown" THEN "html" ELSE "markdown"

\* C25: when generate_validation_report returned a report in one format,
\* the renderer of the other format renders the same results too, and the
\* two reports show the same file, scope, overall status and counts and the
\* same issues: those of the verdicts that are not "valid", in order, with
\* the same numbers, texts, statuses, messages and suggestions.  When the
\* call raised in the renderer, the other renderer raises the same.
ReportsCarrySameInformation ==
    (report # None /\ report.raised # "NoValidationResults") =>
        LET other == RenderReport(OtherFormat(report.output_format), report.results)
        IN IF report.raised = "KeyError" THEN other.raised = "KeyError"
           ELSE /\ other.raised = "none"
                /\ report.raised = "none" =>
                      LET shown == ReportInfo(report.output_format, report.text)
                      IN /\ shown = ReportInfo(OtherFormat(report.output_format),
                                               other.value)
                         /\ shown.issues = IssuesOfResults(report.results)
                         /\ shown.file = report.results.file_path
                         /\ shown.scope = report.results.scope
                         /\ shown.status = report.results.overall_status

\* An HTML report was returned of results whose first and third verdicts
\* are issues, the third with suggestions, and whose second is "valid".
ReportsCarrySameInformationWitness ==
    /\ report # None
    /\ report.raised = "none"
    /\ report.output_format = "html"
    /\ Len(report.results.chunks) = 3
    /\ report.results.chunks[1].status # "valid"
    /\ report.results.chunks[2].status = "valid"
    /\ report.results.chunks[3].status # "valid"
    /\ report.results.chunks[3].suggestions # <<>>
    /\ Len(ReportInfo("html", report.text).issues) = 2
    /\ ReportInfo("html", report.text).issues[2].number = "3"
    /\ ReportInfo("html", report.text).issues[2].suggestions =
          report.results.chunks[3].suggestions

\* The steps at which an operation polls.
Polling == {"wait_for_knowledge_base", "wait_for_ingestion"}

\* The status a poller waits for, and those at which it goes on waiting.
DoneStatus(step) == IF step = "wait_for_knowledge_base" THEN "AVAILABLE" ELSE "COMPLETE"

InProgress(step) ==
    IF step = "wait_for_knowledge_base" THEN {"CREATING", "UPDATING"}
    ELSE {"IN_PROGRESS", "STARTING"}

\* What an attempt of a poller does: one status call; the poller returns
\* exactly when the call reported the status it waits for, raises
\* ValueError at a status that is neither that one nor one in progress, and
\* after a status in progress or a ClientError goes on when attempts are
\* left and raises TimeoutError when none is.
PollerAttemptAsClaimed ==
    /\ status_calls' = status_calls + 1
    /\ kb_step' = "returned" <=> status_reply' = DoneStatus(kb_step)
    /\ status_reply' \in Statuses \ ({DoneStatus(kb_step)} \cup InProgress(kb_step)) =>
           kb_step' = "raised" /\ kb_error' = "ValueError"
    /\ status_reply' \in InProgress(kb_step) \cup {"ClientError"} =>
           IF status_calls' < max_attempts
           THEN kb_step' = kb_step /\ kb_error' = "none"
           ELSE kb_step' = "raised" /\ kb_error' = "TimeoutError"

\* C26: a poller makes at most max_attempts status calls, one in each
\* attempt; it returns only in an attempt whose status call reported the
\* status it waits for; a status that is neither that one nor one in
\* progress makes it raise ValueError in that attempt; after a status call
\* that raised ClientError, as after a status in progress, it goes on
\* polling when attempts are left and raises TimeoutError when that was the
\* last one; a TimeoutError comes after exactly max_attempts status calls;
\* and a poller that has started ends, by returning or by raising.
PollersBounded ==
    /\ [](status_calls <= max_attempts /\ status_calls = attempts)
    /\ [](kb_error = "TimeoutError" => status_calls = max_attempts)
    /\ [][(kb_step \in Polling) => PollerAttemptAsClaimed]_vars
    /\ (kb_step \in Polling) ~> (kb_step \in {"returned", "raised"})

\* The poller of upload_document timed out, and its last status call had
\* raised ClientError.
PollersBoundedWitness ==
    /\ kb_operation = "upload_document"
    /\ kb_error = "TimeoutError"
    /\ status_calls = max_attempts
    /\ status_reply = "ClientError"

\* The calls upload_document makes before it polls, in order.
UploadCalls(source) ==
    (IF source = "given" THEN <<>> ELSE <<"create_data_source">>)
    \o <<"get_knowledge_base", "upload_fileobj", "ingest_data">>

\* C30: create_knowledge_base polls only after the service created the
\* knowledge base and returns its response only once a status call reported
\* AVAILABLE; upload_document creates the data source when none was given,
\* reads the knowledge base, uploads the file, starts the ingestion and
\* polls, in that order, and returns only once a status call reported
\* COMPLETE; an operation that raised, as when its poller timed out or saw
\* an unexpected status, returned no response.
ProvisioningOrder ==
    /\ kb_operation = "create_knowledge_base" =>
          /\ status_calls > 0 => service_calls = <<"create_knowledge_base">>
          /\ kb_returned = "response" => status_reply = "AVAILABLE"
    /\ kb_operation = "upload_document" =>
          /\ \E n \in 0..Len(UploadCalls(data_source_id)) :
                service_calls = SubSeq(UploadCalls(data_source_id), 1, n)
          /\ data_source_id = "none" => service_calls = <<"create_data_source">>
          /\ status_calls > 0 => service_calls = UploadCalls(data_source_id)
          /\ kb_returned = "response" => status_reply = "COMPLETE"
    /\ kb_returned = "response" => kb_step = "returned" /\ status_calls > 0
    /\ kb_error # "none" => kb_step = "raised" /\ kb_returned = "none"

\* upload_document created the data source and returned after its poller
\* had polled more than once.
ProvisioningOrderWitness ==
    /\ kb_operation = "upload_document"
    /\ data_source_id = "created"
    /\ kb_returned = "response"
    /\ status_calls > 1
    /\ service_calls =
          <<"create_data_source", "get_knowledge_base", "upload_fileobj", "ingest_data">>

\* A call of validate_file on the object has built its result: it went
\* through the loop over its chunks and assigned validation_results, and
\* then returned or raised in the write of the result file.
ResultBuilt == pc = "Done" \/ (pc = "Failed" /\ error = "PersistenceFailure")

\* C27 as stated: on an object on which no call of validate_file has
\* completed, generate_validation_report raises "No validation results
\* available" in every format, writes no report file and leaves
\* validation_results None; after a completed call it does not raise that.
ReportNeedsCompletedRun ==
    [][GenerateValidationReport =>
          IF pc = "Done"
          THEN report'.raised # "NoValidationResults"
          ELSE /\ report'.raised = "NoValidationResults"
               /\ report_file' = report_file
               /\ validation_results' = None]_vars

\* C27, amended: validation_results is None until a call of validate_file
\* has built its result; generate_validation_report raises "No validation
\* results available" exactly when it is None, in every format, and then
\* writes no report file and leaves it None; once a call has built its
\* result, also one that then raised in the write of the result file, the
\* report does not raise that.
ReportNeedsBuiltResult ==
    /\ [](runs <= 1 => (validation_results = None <=> ~ResultBuilt))
    /\ [][GenerateValidationReport =>
             IF ResultBuilt
             THEN report'.raised # "NoValidationResults"
             ELSE /\ report'.raised = "NoValidationResults"
                  /\ report'.text = Unbound
                  /\ report_file' = report_file
                  /\ validation_results' = None]_vars

\* A report was asked for after the one run of the object had failed in
\* its loop: the call raised, no report file was written, and
\* validation_results is None.
ReportNeedsBuiltResultWitness ==
    /\ pc = "Failed"
    /\ error = "RetrievalFailure"
    /\ report # None
    /\ report.raised = "NoValidationResults"
    /\ report_file = Unbound
    /\ validation_results = None

\* The failures of validate_file before its result is built: in reading
\* the file, in splitting, in analysing a chunk.
FailuresBeforeResult == {"UnreadableInput", "InvalidScope"} \cup CallFailures

\* What validation_results held when the current call of validate_file
\* started: the result object built last before, None when there is none.
ResultBefore == IF heap = <<>> THEN None ELSE heap[Len(heap)]

\* C28: a call of validate_file that raised while reading the file,
\* splitting or analysing a chunk has left validation_results at the value
\* it had before the call: None, or the result the latest call that built
\* one has built, whole; and a report asked for then is made of that result:
\* it shows its file, its scope and its verdicts.
FailedRunKeepsResult ==
    /\ []((impl = "workflow" /\ pc = "Failed" /\ error \in FailuresBeforeResult) =>
             /\ Len(heap) < runs
             /\ validation_results = ResultBefore
             /\ validation_results # None =>
                    Len(validation_results.chunks) =
                        validation_results.summary.validated_chunks)
    /\ [][(/\ GenerateValidationReport
           /\ pc = "Failed"
           /\ error \in FailuresBeforeResult
           /\ heap # <<>>) =>
              /\ report'.results = ResultBefore
              /\ report'.raised = "none" =>
                     LET shown == ReportInfo(report'.output_format, report'.text)
                     IN /\ shown.file = ResultBefore.file_path
                        /\ shown.scope = ResultBefore.scope
                        /\ shown.issues = IssuesOfResults(ResultBefore)]_vars

\* The second run of a workflow raised in the analysis of its chunk, and
\* the report asked for then shows the file and the verdict of the first
\* run, whose document is another.
FailedRunKeepsResultWitness ==
    /\ impl = "workflow"
    /\ runs = 2
    /\ pc = "Failed"
    /\ error \in CallFailures
    /\ Len(heap) = 1
    /\ validation_results = heap[1]
    /\ report # None
    /\ report.raised = "none"
    /\ report.results = heap[1]
    /\ heap[1].file_path # FilePath(content)
    /\ ReportInfo(report.output_format, report.text).file = heap[1].file_path
    /\ Len(ReportInfo(report.output_format, report.text).issues) = 1

\* The counters of a result of validate_content are in order: the issues
\* are among the validated chunks, those among the verdicts, and there are
\* no more verdicts than chunks.
CountersInOrder(results) ==
    /\ 0 <= results.summary.issues_found
    /\ results.summary.issues_found <= results.summary.validated_chunks
    /\ results.summary.validated_chunks <= Len(results.chunks)
    /\ Len(results.chunks) <= results.summary.total_chunks

\* C29: in validate_content, from the start of the loop on, after every
\* iteration and in the result returned, 0 <= issues_found <=
\* validated_chunks <= len(chunks) <= total_chunks; total_chunks is the
\* number of chunks the splitter returned, and no iteration changes it.
CounterInvariant ==
    /\ []((impl = "validator" /\ cv_validation_results # None) =>
             /\ CountersInOrder(cv_validation_results)
             /\ cv_validation_results.summary.total_chunks = Len(content_chunks)
             /\ Len(cv_validation_results.chunks) <= i - 1)
    /\ []((impl = "validator" /\ returned # None) => CountersInOrder(returned))
    /\ [][(/\ impl = "validator"
           /\ pc \in {"PerChunkAnalysis", "Aggregating"}
           /\ cv_validation_results' # None) =>
              cv_validation_results'.summary.total_chunks =
                  cv_validation_results.summary.total_chunks]_vars

\* validate_content returned a result of two chunks, one of them validated
\* and without issue, the other without passages.
CounterInvariantWitness ==
    /\ impl = "validator"
    /\ pc = "Done"
    /\ returned.summary.total_chunks = 2
    /\ Len(returned.chunks) = 2
    /\ returned.summary.validated_chunks = 1
    /\ returned.summary.issues_found = 0

====
